---- MODULE Spec2Model ----
(***************************************************************************)
(* A model of "news writter/script.py": the NewsDatabase entry store and   *)
(* the NewsApp session controller (recording, translation, save, load).    *)
(*                                                                         *)
(* Python and Tk strings are sequences of one-character strings, so that   *)
(* str.strip() and the trailing newline of Text.get("1.0", END) are        *)
(* computed and not assumed.  A language code such as 'ta' is <<"t","a">>. *)
(***************************************************************************)
EXTENDS Integers, Sequences, FiniteSets, TLC

\* ------------------------------------------------------------------ bounds
\* The number of rows the table may hold (saves stop when it is reached).
MaxRows == 2
\* The number of recording threads started in one run of the program.
MaxThreads == 2

\* The latest time at which the program is started.
MaxClock == 4

Threads == 1..MaxThreads

\* ----------------------------------------------------------------- strings
TA == <<"t", "a">>
EN == <<"e", "n">>
Languages == {TA, EN}

Whitespace == {" ", "\n"}

RECURSIVE LStrip(_)
LStrip(s) ==
    IF s # <<>> /\ Head(s) \in Whitespace THEN LStrip(Tail(s)) ELSE s

RECURSIVE RStrip(_)
RStrip(s) ==
    IF s # <<>> /\ s[Len(s)] \in Whitespace
    THEN RStrip(SubSeq(s, 1, Len(s) - 1))
    ELSE s

\* str.strip()
Strip(s) == RStrip(LStrip(s))

\* Text.get("1.0", tk.END): the content followed by the widget's newline.
TextGet(buf) == Append(buf, "\n")

\* Entry.get(): the content as it is.
EntryGet(buf) == buf

Digit == <<"0", "1", "2", "3", "4", "5", "6", "7", "8", "9">>

\* str(n) of a natural number, as Tk renders an integer cell.
RECURSIVE IntStr(_)
IntStr(n) ==
    IF n < 10 THEN <<Digit[n + 1]>>
    ELSE Append(IntStr(n \div 10), Digit[(n % 10) + 1])

\* What the user can type into the title entry and the original-text widget,
\* what the recognizer can return, and what the translator can return.
TitleInputs == {<<>>, <<" ">>, <<"a">>}
OrigInputs == {<<>>, <<" ">>, <<"b", " ">>}
Heard == {<<"h">>}
TransOutputs == {<<"x">>}

\* ------------------------------------------------------------ entry store
\* SQL NULL (Python None), and its rendering by Tk.
NULL == <<"NULL">>
NoneStr == <<"N", "o", "n", "e">>

\* The columns of CREATE TABLE news_entries, in declaration order.
FreshColumns ==
    <<"id", "title", "original_text", "translated_text", "source_lang",
      "target_lang", "language", "created_at">>

required_columns ==
    <<"title", "original_text", "translated_text", "source_lang",
      "target_lang", "created_at", "language">>

\* The columns the migration loop has an ALTER TABLE branch for.
Addable == {"title", "source_lang", "target_lang", "created_at"}

\* The DEFAULT of each ALTER TABLE ... ADD COLUMN; CURRENT_TIMESTAMP is the
\* time of the statement.
ColumnDefault(col, time) ==
    CASE col = "title" -> <<"U", "n", "t", "i", "t", "l", "e", "d">>
      [] col = "source_lang" -> EN
      [] col = "target_lang" -> TA
      [] col = "created_at" -> time

Range(s) == {s[i] : i \in DOMAIN s}

\* One ALTER TABLE news_entries ADD COLUMN col ... on a store that has the
\* table.  SQLite refuses a non-constant default (CURRENT_TIMESTAMP) when the
\* table holds rows: the statement raises and the constructor with it.
AddColumn(db, col, time) ==
    IF ~db.ok THEN db
    ELSE IF col = "created_at" /\ db.rows # <<>>
         THEN [db EXCEPT !.ok = FALSE]
         ELSE [ok |-> TRUE,
               columns |-> Append(db.columns, col),
               rows |-> [i \in DOMAIN db.rows |->
                           [c \in DOMAIN db.rows[i] \cup {col} |->
                              IF c = col THEN ColumnDefault(col, time)
                              ELSE db.rows[i][c]]]]

\* The loop without the test "col not in columns".
RECURSIVE MigrateNoCheck(_, _, _)
MigrateNoCheck(db, k, time) ==
    IF k > Len(required_columns) THEN db
    ELSE LET col == required_columns[k] IN
         IF col \in Addable
         THEN MigrateNoCheck(AddColumn(db, col, time), k + 1, time)
         ELSE MigrateNoCheck(db, k + 1, time)

\* The loop over required_columns, from position k on.
RECURSIVE Migrate(_, _, _)
Migrate(db, k, time) ==
    IF k > Len(required_columns) THEN db
    ELSE LET col == required_columns[k] IN
         IF col \notin Range(db.columns) /\ col \in Addable
         THEN Migrate(AddColumn(db, col, time), k + 1, time)
         ELSE Migrate(db, k + 1, time)

\* NewsDatabase._initialize_database on a database file: file.columns is
\* PRAGMA table_info (empty when the table does not exist).
InitializeDatabase(file, time) ==
    IF file.columns = <<>>
    THEN [ok |-> TRUE, columns |-> FreshColumns, rows |-> <<>>]
    ELSE Migrate([ok |-> TRUE, columns |-> file.columns, rows |-> file.rows],
                 1, time)

\* The database files the program may find at start: none, a table of an
\* older version without rows, and a table of an older version (one
\* 'language' column instead of the language pair) with one row.
NoFile == [columns |-> <<>>, rows |-> <<>>]

NarrowFile ==
    [columns |-> <<"id", "original_text", "translated_text">>, rows |-> <<>>]

OlderFile ==
    [columns |-> <<"id", "title", "original_text", "translated_text",
                   "language", "created_at">>,
     rows |-> << [id |-> 1, title |-> <<"a">>, original_text |-> <<"b">>,
                  translated_text |-> <<"x">>, language |-> TA,
                  created_at |-> 0] >>]

Files == {NoFile, NarrowFile, OlderFile}

\* The columns INSERT INTO news_entries names.
InsertColumns ==
    <<"title", "original_text", "translated_text", "source_lang",
      "target_lang", "created_at">>

Max(S) == CHOOSE x \in S : \A y \in S : y <= x

\* The id AUTOINCREMENT gives the next row: one more than the largest so far.
NextRowId(db_rows) ==
    IF db_rows = <<>> THEN 1
    ELSE 1 + Max({db_rows[i]["id"] : i \in DOMAIN db_rows})

\* save_entry without the rollback: the row of a failed INSERT stays.
save_entry_no_rollback(db_columns, db_rows, title, original, translated, source_lang, target_lang, time, fault) ==
    [ok |-> ~fault /\ Range(InsertColumns) \subseteq Range(db_columns),
     rows |-> Append(db_rows,
                [c \in Range(db_columns) |->
                   CASE c = "id" -> NextRowId(db_rows)
                     [] c = "title" -> title
                     [] c = "original_text" -> original
                     [] c = "translated_text" -> translated
                     [] c = "source_lang" -> source_lang
                     [] c = "target_lang" -> target_lang
                     [] c = "created_at" -> time
                     [] OTHER -> NULL])]

\* save_entry as INSERT OR REPLACE on the id of the last row.
save_entry_replace(db_columns, db_rows, title, original, translated, source_lang, target_lang, time, fault) ==
    IF fault \/ ~(Range(InsertColumns) \subseteq Range(db_columns))
    THEN [ok |-> FALSE, rows |-> db_rows]
    ELSE LET id == IF db_rows = <<>> THEN 1 ELSE NextRowId(db_rows) - 1
             row == [c \in Range(db_columns) |->
                       CASE c = "id" -> id
                         [] c = "title" -> title
                         [] c = "original_text" -> original
                         [] c = "translated_text" -> translated
                         [] c = "source_lang" -> source_lang
                         [] c = "target_lang" -> target_lang
                         [] c = "created_at" -> time
                         [] OTHER -> NULL]
         IN [ok |-> TRUE,
             rows |-> IF db_rows = <<>> THEN <<row>>
                      ELSE [db_rows EXCEPT ![Len(db_rows)] = row]]

\* NewsDatabase.save_entry: [ok, rows].  fault is a sqlite3.Error raised by
\* the INSERT (rolled back); an INSERT naming a column the table lacks is one.
save_entry(db_columns, db_rows, title, original, translated, source_lang, target_lang, time, fault) ==
    IF fault \/ ~(Range(InsertColumns) \subseteq Range(db_columns))
    THEN [ok |-> FALSE, rows |-> db_rows]
    ELSE [ok |-> TRUE,
          rows |-> Append(db_rows,
                     [c \in Range(db_columns) |->
                        CASE c = "id" -> NextRowId(db_rows)
                          [] c = "title" -> title
                          [] c = "original_text" -> original
                          [] c = "translated_text" -> translated
                          [] c = "source_lang" -> source_lang
                          [] c = "target_lang" -> target_lang
                          [] c = "created_at" -> time
                          [] OTHER -> NULL])]

\* The first row of ORDER BY created_at ASC.
FirstAsc(db_rows, S) ==
    CHOOSE i \in S :
        \A j \in S : db_rows[i]["created_at"] <= db_rows[j]["created_at"]

\* The row that ORDER BY created_at DESC puts first among the rows at the
\* positions S (equal times: the lower id, as rowid order gives).
FirstDesc(db_rows, S) ==
    CHOOSE i \in S :
        \A j \in S :
            \/ db_rows[i]["created_at"] > db_rows[j]["created_at"]
            \/ /\ db_rows[i]["created_at"] = db_rows[j]["created_at"]
               /\ db_rows[i]["id"] <= db_rows[j]["id"]

RECURSIVE OrderDesc(_, _)
OrderDesc(db_rows, S) ==
    IF S = {} THEN <<>>
    ELSE LET i == FirstDesc(db_rows, S) IN
         <<i>> \o OrderDesc(db_rows, S \ {i})

\* NewsDatabase.get_all_titles: (id, title, created_at) of every row, ordered
\* by created_at descending; [] on a sqlite3.Error.
get_all_titles(db_columns, db_rows, fault) ==
    IF fault \/ ~({"id", "title", "created_at"} \subseteq Range(db_columns))
    THEN <<>>
    ELSE LET order == OrderDesc(db_rows, DOMAIN db_rows) IN
         [k \in DOMAIN order |->
            <<db_rows[order[k]]["id"], db_rows[order[k]]["title"],
              db_rows[order[k]]["created_at"]>>]

\* A cell as the Python value Tk shows: integers and times as their digits,
\* NULL as None, text as itself.
CellStr(col, v) ==
    IF col \in {"id", "created_at"} THEN IntStr(v)
    ELSE IF v = NULL THEN NoneStr ELSE v

\* NewsDatabase.get_entry: SELECT * gives the row's cells in the table's
\* column order; <<>> stands for None (no such row, or a sqlite3.Error).
get_entry(db_columns, db_rows, entry_id, fault) ==
    IF fault \/ ~(\E i \in DOMAIN db_rows : db_rows[i]["id"] = entry_id)
    THEN <<>>
    ELSE LET i == CHOOSE i \in DOMAIN db_rows : db_rows[i]["id"] = entry_id IN
         [k \in DOMAIN db_columns |->
            CellStr(db_columns[k], db_rows[i][db_columns[k]])]

\* entry[k] of a Python tuple (indices from 0).
Item(entry, k) == entry[k + 1]

\* -------------------------------------------------------------- the state
VARIABLES
    columns,           \* the table's columns, in order (PRAGMA table_info)
    rows,              \* the table's rows, in insertion order
    now,               \* the clock datetime.now() reads
    title_entry,       \* content of the title Entry
    orig_text,         \* content of the original-text Text
    trans_text,        \* content of the translated-text Text
    lang_var,          \* the StringVar behind the language radio buttons
    current_language,  \* NewsApp.current_language
    is_listening,      \* NewsApp.is_listening
    start_btn,         \* state of the Start Recording button
    stop_btn,          \* state of the Stop Recording button
    pc,                \* where each recording thread is in start_recording
    heard,             \* the text recognize_google returned to each thread
    tree,              \* the rows of the open selection window (<<>>: none)
    cancelled,         \* the threads that were running when Stop was pressed
    last               \* what the last step did and showed

vars ==
    <<columns, rows, now, title_entry, orig_text, trans_text, lang_var,
      current_language, is_listening, start_btn, stop_btn, pc, heard, tree,
      cancelled, last>>

store == <<columns, rows, now>>
buffers == <<title_entry, orig_text, trans_text>>
language == <<lang_var, current_language>>
buttons == <<is_listening, start_btn, stop_btn>>
recording == <<pc, heard, cancelled>>

\* The record of a step that showed nothing and called nothing.
NoEffect(op) ==
    [op |-> op, thread |-> 0, dialog |-> "none", call |-> <<>>,
     store |-> "none", id |-> 0, hint |-> <<>>, fault |-> FALSE,
     raised |-> FALSE]

\* NewsApp.__init__ (and create_widgets) with one of the files found: the
\* store is the result of _initialize_database on it; the constructor raises,
\* and the program does not start, when the migration fails.
Construct(files) ==
    /\ \E file \in files :
         LET db == InitializeDatabase(file, 1) IN
         /\ db.ok
         /\ columns = db.columns
         /\ rows = db.rows
    /\ now = 2
    /\ title_entry = <<>>
    /\ orig_text = <<>>
    /\ trans_text = <<>>
    /\ lang_var = TA
    /\ current_language = TA
    /\ is_listening = FALSE
    /\ start_btn = "normal"
    /\ stop_btn = "disabled"
    /\ pc = [t \in Threads |-> "idle"]
    /\ heard = [t \in Threads |-> <<>>]
    /\ tree = <<>>
    /\ cancelled = {}
    /\ last = NoEffect("init")

Init == Construct(Files)

\* ------------------------------------------------------------ translation
\* What the translator returns when it raises.
TranslatorFault == <<"Fault">>

\* The text without .strip().
TextToTranslateUnstripped(buf) == TextGet(buf)

\* The text translate_text works on.
TextToTranslate(buf) == Strip(TextGet(buf))

\* The translator call of translate_text for the language lang: (src, dest,
\* text).
TranslationRequest(lang, text) ==
    IF lang = TA THEN <<EN, TA, text>> ELSE <<TA, EN, text>>

\* translate_text deleting the translated text before the translator is
\* called, not after it returned.
translate_text_delete_first(lang, op, t) ==
    LET text == TextToTranslate(orig_text) IN
    IF text = <<>>
    THEN /\ trans_text' = <<>>
         /\ last' = [NoEffect(op) EXCEPT !.thread = t]
    ELSE \E res \in TransOutputs \cup {TranslatorFault} :
           IF res = TranslatorFault
           THEN /\ trans_text' = <<>>
                /\ last' = [NoEffect(op) EXCEPT
                              !.thread = t,
                              !.call = TranslationRequest(lang, text),
                              !.dialog = "error",
                              !.fault = TRUE]
           ELSE /\ trans_text' = res
                /\ last' = [NoEffect(op) EXCEPT
                              !.thread = t,
                              !.call = TranslationRequest(lang, text)]

\* NewsApp.translate_text, run with current_language = lang by the handler op
\* (in recording thread t, or 0 for the user interface).
translate_text(lang, op, t) ==
    LET text == TextToTranslate(orig_text) IN
    IF text = <<>>
    THEN /\ trans_text' = <<>>
         /\ last' = [NoEffect(op) EXCEPT !.thread = t]
    ELSE \E res \in TransOutputs \cup {TranslatorFault} :
           IF res = TranslatorFault
           THEN /\ trans_text' = trans_text
                /\ last' = [NoEffect(op) EXCEPT
                              !.thread = t,
                              !.call = TranslationRequest(lang, text),
                              !.dialog = "error",
                              !.fault = TRUE]
           ELSE /\ trans_text' = res
                /\ last' = [NoEffect(op) EXCEPT
                              !.thread = t,
                              !.call = TranslationRequest(lang, text)]

\* The user types in the title entry (no handler is bound).
EditTitle ==
    /\ \E s \in TitleInputs : title_entry' = s
    /\ last' = NoEffect("title")
    /\ UNCHANGED <<store, orig_text, trans_text, language, buttons, recording,
                   tree>>

\* The user changes the original text (Tk's own key binding).
EditOriginal ==
    /\ \E s \in OrigInputs : orig_text' = s
    /\ last' = NoEffect("type")
    /\ UNCHANGED <<store, title_entry, trans_text, language, buttons,
                   recording, tree>>

\* <KeyRelease> on the original text: translate_text.
KeyRelease ==
    /\ translate_text(current_language, "edit", 0)
    /\ UNCHANGED <<store, title_entry, orig_text, language, buttons,
                   recording, tree>>

\* NewsApp.language_changed: a radio button was clicked, which set lang_var
\* to its value l before the command runs.
language_changed ==
    /\ \E l \in Languages :
         /\ lang_var' = l
         /\ current_language' = lang_var'
    /\ translate_text(current_language', "language", 0)
    /\ UNCHANGED <<store, title_entry, orig_text, buttons, recording, tree>>

\* ------------------------------------------------------------------- save
\* save_to_db without the check of the original text.
SaveVerdictTitleOnly(title, original) ==
    IF title = <<>> THEN "no_title" ELSE "store"

\* The two checks of save_to_db on the stripped title and original text.
SaveVerdict(title, original) ==
    IF title = <<>> THEN "no_title"
    ELSE IF original = <<>> THEN "no_content"
    ELSE "store"

\* source_lang taken to be the current language.
SourceLangSame(lang) == lang

\* source_lang of save_to_db.
SourceLang(lang) == IF lang = TA THEN EN ELSE TA

\* NewsApp.save_to_db.
save_to_db ==
    /\ Len(rows) < MaxRows
    /\ LET title == Strip(EntryGet(title_entry))
           original == Strip(TextGet(orig_text))
           translated == Strip(TextGet(trans_text))
       IN
       IF SaveVerdict(title, original) # "store"
       THEN /\ last' = [NoEffect("save") EXCEPT !.dialog = "warning"]
            /\ UNCHANGED store
       ELSE \E fault \in BOOLEAN :
              LET res == save_entry(columns, rows, title, original,
                                    translated, SourceLang(current_language),
                                    current_language, now, fault)
              IN
              /\ rows' = res.rows
              /\ now' = IF res.ok THEN now + 1 ELSE now
              /\ columns' = columns
              /\ last' = IF res.ok
                         THEN [NoEffect("save") EXCEPT
                                 !.dialog = "info", !.store = "ok"]
                         ELSE [NoEffect("save") EXCEPT
                                 !.dialog = "error", !.store = "failed",
                                 !.fault = TRUE]
    /\ UNCHANGED <<buffers, language, buttons, recording, tree>>

\* ------------------------------------------------------- previous entries
\* NewsApp.fetch_previous_work: the selection window shows the listing; with
\* no entries only a message is shown.
fetch_previous_work ==
    /\ \E fault \in BOOLEAN :
         LET entries == get_all_titles(columns, rows, fault) IN
         IF entries = <<>>
         THEN /\ tree' = tree
              /\ last' = [NoEffect("fetch") EXCEPT
                            !.dialog = "info", !.fault = fault]
         ELSE /\ tree' = entries
              /\ last' = NoEffect("fetch")
    /\ UNCHANGED <<store, buffers, language, buttons, recording>>

\* load_selected with the i-th item of the window focused.
load_selected ==
    /\ \E i \in DOMAIN tree, fault \in BOOLEAN :
         LET entry_id == tree[i][1]
             entry == get_entry(columns, rows, entry_id, fault)
         IN
         IF entry = <<>>
         THEN /\ last' = [NoEffect("load") EXCEPT !.fault = fault]
              /\ UNCHANGED <<buffers, lang_var, tree>>
         ELSE /\ title_entry' = Item(entry, 1)
              /\ orig_text' = Item(entry, 2)
              /\ trans_text' = Item(entry, 3)
              /\ lang_var' = Item(entry, 5)
              /\ tree' = <<>>
              /\ last' = [NoEffect("load") EXCEPT !.id = entry_id]
    /\ UNCHANGED <<store, current_language, buttons, recording>>

\* The Cancel button of the selection window.
CancelSelect ==
    /\ tree # <<>>
    /\ tree' = <<>>
    /\ last' = NoEffect("cancel")
    /\ UNCHANGED <<store, buffers, language, buttons, recording>>

\* -------------------------------------------------------------- recording
\* The language argument of recognize_google.
RecognitionCode(lang) ==
    IF lang = EN THEN <<"e", "n", "-", "I", "N">>
    ELSE <<"t", "a", "-", "I", "N">>

\* The outcomes of listen and recognize_google inside the try block.
CaptureOutcomes == {"success", "UnknownValueError", "RequestError", "Exception"}

\* The threads that are inside start_recording.
InFlight ==
    {t \in Threads :
       pc[t] \in {"acquire", "listen", "write", "translate", "reset"}}

\* NewsApp.reset_buttons.
reset_buttons ==
    /\ is_listening' = FALSE
    /\ start_btn' = "normal"
    /\ stop_btn' = "disabled"

\* NewsApp.start_recording_thread, the command of the Start Recording button
\* (a disabled button does not run its command): a new thread is started.
start_recording_thread ==
    /\ start_btn = "normal"
    /\ \E t \in Threads :
         /\ pc[t] = "idle"
         /\ \A u \in Threads : pc[u] = "idle" => t <= u
         /\ pc' = [pc EXCEPT ![t] = "spawned"]
    /\ last' = NoEffect("start")
    /\ UNCHANGED <<store, buffers, language, buttons, heard, cancelled, tree>>

\* start_recording, its first three statements.
Begin(t) ==
    /\ pc[t] = "spawned"
    /\ is_listening' = TRUE
    /\ start_btn' = "disabled"
    /\ stop_btn' = "normal"
    /\ pc' = [pc EXCEPT ![t] = "acquire"]
    /\ last' = [NoEffect("begin") EXCEPT !.thread = t]
    /\ UNCHANGED <<store, buffers, language, heard, cancelled, tree>>

\* with self.microphone as source: adjust_for_ambient_noise(source).  An
\* exception here is outside the try block: it ends the thread, and
\* reset_buttons is not reached.
Acquire(t) ==
    /\ pc[t] = "acquire"
    /\ \E ok \in BOOLEAN :
         /\ pc' = [pc EXCEPT ![t] = IF ok THEN "listen" ELSE "dead"]
         /\ last' = [NoEffect("acquire") EXCEPT !.thread = t, !.raised = ~ok]
    /\ UNCHANGED <<store, buffers, language, buttons, heard, cancelled, tree>>

\* start_recording deleting the original text before recognize_google
\* returned.
ListenDeleteFirst(t) ==
    /\ pc[t] = "listen"
    /\ \E outcome \in CaptureOutcomes :
         IF outcome = "success"
         THEN /\ \E text \in Heard : heard' = [heard EXCEPT ![t] = text]
              /\ pc' = [pc EXCEPT ![t] = "write"]
              /\ last' = [NoEffect("capture") EXCEPT
                            !.thread = t,
                            !.hint = RecognitionCode(current_language)]
         ELSE /\ heard' = heard
              /\ pc' = [pc EXCEPT ![t] = "reset"]
              /\ last' = [NoEffect("capture") EXCEPT
                            !.thread = t,
                            !.hint = RecognitionCode(current_language),
                            !.dialog = "error",
                            !.fault = TRUE]
    /\ orig_text' = <<>>
    /\ UNCHANGED <<store, title_entry, trans_text, language, buttons,
                   cancelled, tree>>

\* listen and recognize_google, with the except clauses.
Listen(t) ==
    /\ pc[t] = "listen"
    /\ \E outcome \in CaptureOutcomes :
         IF outcome = "success"
         THEN /\ \E text \in Heard : heard' = [heard EXCEPT ![t] = text]
              /\ pc' = [pc EXCEPT ![t] = "write"]
              /\ last' = [NoEffect("capture") EXCEPT
                            !.thread = t,
                            !.hint = RecognitionCode(current_language)]
         ELSE /\ heard' = heard
              /\ pc' = [pc EXCEPT ![t] = "reset"]
              /\ last' = [NoEffect("capture") EXCEPT
                            !.thread = t,
                            !.hint = RecognitionCode(current_language),
                            !.dialog = "error",
                            !.fault = TRUE]
    /\ UNCHANGED <<store, buffers, language, buttons, cancelled, tree>>

\* orig_text.delete, orig_text.insert of the recognized text.
Write(t) ==
    /\ pc[t] = "write"
    /\ orig_text' = heard[t]
    /\ pc' = [pc EXCEPT ![t] = "translate"]
    /\ last' = [NoEffect("write") EXCEPT !.thread = t]
    /\ UNCHANGED <<store, title_entry, trans_text, language, buttons, heard,
                   cancelled, tree>>

\* self.translate_text() after the recognized text was written.
Translate(t) ==
    /\ pc[t] = "translate"
    /\ translate_text(current_language, "transcribed", t)
    /\ pc' = [pc EXCEPT ![t] = "reset"]
    /\ UNCHANGED <<store, title_entry, orig_text, language, buttons, heard,
                   cancelled, tree>>

\* self.reset_buttons(), the last statement of start_recording.
Reset(t) ==
    /\ pc[t] = "reset"
    /\ reset_buttons
    /\ pc' = [pc EXCEPT ![t] = "done"]
    /\ last' = [NoEffect("reset") EXCEPT !.thread = t]
    /\ UNCHANGED <<store, buffers, language, heard, cancelled, tree>>

\* NewsApp.stop_recognition, the command of the Stop Recording button.  The
\* call self.recognizer.stop() either returns, having stopped nothing that
\* start_recording waits for, or raises (the recognizer has no such method)
\* and the handler ends before reset_buttons.
stop_recognition ==
    /\ stop_btn = "normal"
    /\ IF is_listening
       THEN /\ cancelled' = cancelled \cup InFlight
            /\ \E raises \in BOOLEAN :
                 IF raises
                 THEN /\ UNCHANGED buttons
                      /\ last' = [NoEffect("stop") EXCEPT !.raised = TRUE]
                 ELSE /\ reset_buttons
                      /\ last' = NoEffect("stop")
       ELSE /\ UNCHANGED <<buttons, cancelled>>
            /\ last' = NoEffect("stop")
    /\ UNCHANGED <<store, buffers, language, pc, heard, tree>>

\* ------------------------------------------------------ the specification
\* ------------------------------------------------------- program start
\* The columns of a table, in the order of CREATE TABLE, that are in S.
RECURSIVE Pick(_, _)
Pick(seq, S) ==
    IF seq = <<>> THEN <<>>
    ELSE (IF Head(seq) \in S THEN <<Head(seq)>> ELSE <<>>)
         \o Pick(Tail(seq), S)

\* The value an older version stored in the column col of its row i.
LegacyValue(col, i) ==
    CASE col = "id" -> i
      [] col = "title" -> <<"a">>
      [] col = "original_text" -> <<"b">>
      [] col = "translated_text" -> <<"x">>
      [] col = "source_lang" -> TA
      [] col = "target_lang" -> EN
      [] col = "language" -> TA
      [] col = "created_at" -> 0

\* The database files the program may find: none, and the tables of older
\* versions, with id and any of the other columns, holding up to MaxRows
\* rows.
RawFiles ==
    {NoFile} \cup
    {[columns |-> <<"id">> \o Pick(Tail(FreshColumns), S),
      rows |-> [i \in 1..n |->
                  [c \in {"id"} \cup S |-> LegacyValue(c, i)]]] :
       S \in SUBSET Range(Tail(FreshColumns)), n \in 0..MaxRows}

\* The program is not running and the database file is one of files.
Found(files) ==
    /\ \E file \in files :
         /\ columns = file.columns
         /\ rows = file.rows
    /\ now = 2
    /\ title_entry = <<>>
    /\ orig_text = <<>>
    /\ trans_text = <<>>
    /\ lang_var = TA
    /\ current_language = TA
    /\ is_listening = FALSE
    /\ start_btn = "normal"
    /\ stop_btn = "disabled"
    /\ pc = [t \in Threads |-> "idle"]
    /\ heard = [t \in Threads |-> <<>>]
    /\ tree = <<>>
    /\ cancelled = {}
    /\ last = NoEffect("file")

\* The program is started (again) on the database file as it is:
\* NewsApp.__init__ with NewsDatabase.__init__ and _initialize_database.
\* Each ALTER TABLE that ran stays in the file when a later one raises, and
\* the constructor raises with it.
Start ==
    /\ now < MaxClock
    /\ LET db == InitializeDatabase([columns |-> columns, rows |-> rows], now)
       IN
       /\ columns' = db.columns
       /\ rows' = db.rows
       /\ last' = [NoEffect("initialize") EXCEPT !.raised = ~db.ok]
    /\ now' = now + 1
    /\ title_entry' = <<>>
    /\ orig_text' = <<>>
    /\ trans_text' = <<>>
    /\ lang_var' = TA
    /\ current_language' = TA
    /\ is_listening' = FALSE
    /\ start_btn' = "normal"
    /\ stop_btn' = "disabled"
    /\ pc' = [t \in Threads |-> "idle"]
    /\ heard' = [t \in Threads |-> <<>>]
    /\ tree' = <<>>
    /\ cancelled' = {}

\* The steps of the recording and translation workflow.
NextSession ==
    \/ EditOriginal
    \/ KeyRelease
    \/ language_changed
    \/ start_recording_thread
    \/ stop_recognition
    \/ \E t \in Threads : Begin(t)
    \/ \E t \in Threads : Acquire(t)
    \/ \E t \in Threads : Listen(t)
    \/ \E t \in Threads : Write(t)
    \/ \E t \in Threads : Translate(t)
    \/ \E t \in Threads : Reset(t)

\* The steps of editing, saving, listing and loading entries.
NextStore ==
    \/ EditTitle
    \/ EditOriginal
    \/ KeyRelease
    \/ language_changed
    \/ save_to_db
    \/ fetch_previous_work
    \/ load_selected
    \/ CancelSelect

\* The steps of a program that is closed and started again: the steps that
\* fill the buffers, the steps that call the database, and the start.
NextLifecycle ==
    \/ EditTitle
    \/ EditOriginal
    \/ KeyRelease
    \/ save_to_db
    \/ fetch_previous_work
    \/ load_selected
    \/ Start

Next == NextSession \/ NextLifecycle

Spec == Init /\ [][Next]_vars

\* The program with a new database file, recording and translating.
SpecSession == Construct({NoFile}) /\ [][NextSession]_vars

\* The program on a new database file and on the older file with a row, with
\* no recording started.
SpecStore == Construct({NoFile, OlderFile}) /\ [][NextStore]_vars

\* The program on a new database file, with no recording started.
SpecFresh == Construct({NoFile}) /\ [][NextStore]_vars

\* The program on the database files of older versions.
SpecMigrated == Construct({NarrowFile, OlderFile}) /\ [][NextStore]_vars

\* The program started, once and again, on each database file.
SpecInit == Found(RawFiles) /\ [][Start]_vars

\* The program on a new database file and on the older file with a row,
\* closed and started again at any time, with no recording started.
SpecLifecycle == Construct({NoFile, OlderFile}) /\ [][NextLifecycle]_vars

\* ------------------------------------------------------------- properties
\* The other language of the pair.
Complement(lang) == IF lang = TA THEN EN ELSE TA

\* The row with the id n.
RowOf(n) == rows[CHOOSE i \in DOMAIN rows : rows[i]["id"] = n]

\* C1: a start request while Listening starts no second capture: in every
\* reachable state at most one capture operation is in flight.
C1_AtMostOneCapture == Cardinality(InFlight) <= 1

\* C2: a stop request while Listening returns the controller to Idle, and
\* after it the recording sessions it stopped write neither the original-text
\* nor the translated-text buffer, whatever their capture produces.
C2_StopCancelsSession ==
    [][/\ (last'.op = "stop" /\ is_listening) => ~is_listening'
       /\ \A t \in cancelled :
            last'.thread = t =>
              /\ orig_text' = orig_text
              /\ trans_text' = trans_text]_vars

\* C3: a save with the title empty after trimming, or the original text empty
\* after trimming, shows a warning, makes no store call and leaves the rows
\* as they were.
C3_SaveRejected ==
    [][(/\ last'.op = "save"
        /\ \/ Strip(title_entry) = <<>>
           \/ Strip(orig_text) = <<>>)
       => /\ rows' = rows
          /\ last'.dialog = "warning"
          /\ last'.store = "none"]_vars

\* C3 witness: a save was rejected for its original text, which is blank but
\* not empty, with a title given and a row already stored.
C3_Witness ==
    /\ last.op = "save"
    /\ last.dialog = "warning"
    /\ Strip(title_entry) # <<>>
    /\ orig_text = <<" ">>
    /\ rows # <<>>

\* C4: a successful save adds exactly one row, whose title, original_text and
\* translated_text are the buffers (as save trims them), whose target_lang is
\* the selected target language and whose source_lang is its complement.
C4_SavedRowMatchesSelection ==
    [][(last'.op = "save" /\ last'.store = "ok")
       => /\ Len(rows') = Len(rows) + 1
          /\ SubSeq(rows', 1, Len(rows)) = rows
          /\ LET r == rows'[Len(rows')] IN
             /\ r["title"] = Strip(title_entry)
             /\ r["original_text"] = Strip(orig_text)
             /\ r["translated_text"] = Strip(trans_text)
             /\ r["target_lang"] = lang_var
             /\ r["source_lang"] = Complement(lang_var)]_vars

\* C5: every row has source_lang different from target_lang, and the pair is
\* (en, ta) or (ta, en).
C5_ComplementaryPairs ==
    \A i \in DOMAIN rows :
        /\ rows[i]["source_lang"] # rows[i]["target_lang"]
        /\ <<rows[i]["source_lang"], rows[i]["target_lang"]>>
             \in {<<EN, TA>>, <<TA, EN>>}

\* C5 witness: a row was just saved with target en while another row has
\* target ta.
C5_Witness ==
    /\ last.op = "save"
    /\ last.store = "ok"
    /\ rows[Len(rows)]["target_lang"] = EN
    /\ \E i \in DOMAIN rows : rows[i]["target_lang"] = TA

\* The listing fetch_previous_work just obtained: nothing when it showed the
\* "No previous work found" message, the rows of the window otherwise.
ShownListing == IF last.dialog = "info" THEN <<>> ELSE tree

\* l holds (id, title, created_at) of every row, once each, by created_at
\* descending, the row saved last first.
IsFullListing(l) ==
    /\ Len(l) = Len(rows)
    /\ {l[k] : k \in DOMAIN l}
         = {<<rows[i]["id"], rows[i]["title"], rows[i]["created_at"]>> :
              i \in DOMAIN rows}
    /\ \A k, m \in DOMAIN l : k < m => l[k][3] >= l[m][3]
    /\ rows # <<>> => l[1][1] = rows[Len(rows)]["id"]

\* C6 as stated: every listing is the full set of rows as (id, title,
\* created_at), by created_at descending, the entry saved last first.
C6_ListingAlwaysFull == last.op = "fetch" => IsFullListing(ShownListing)

\* C6 amended: a listing whose read of the store raised is empty; every
\* other listing is the full set of rows as (id, title, created_at), by
\* created_at descending, the entry saved last first.
C6_ListingFullUnlessFault ==
    last.op = "fetch" =>
        IF last.fault THEN ShownListing = <<>>
        ELSE IsFullListing(ShownListing)

\* C6 witness: a listing of two rows was shown, the row saved last first.
C6_Witness ==
    /\ last.op = "fetch"
    /\ ~last.fault
    /\ Len(tree) >= 2
    /\ tree[1][1] = rows[Len(rows)]["id"]
    /\ tree[1][3] > tree[2][3]

\* C7: loading an entry puts its title, original_text and translated_text in
\* the three buffers and its target_lang in the selected target language, on
\* a store of the current schema and on a migrated one.
C7_LoadReplacesWithStored ==
    (last.op = "load" /\ last.id # 0) =>
        /\ title_entry = RowOf(last.id)["title"]
        /\ orig_text = RowOf(last.id)["original_text"]
        /\ trans_text = RowOf(last.id)["translated_text"]
        /\ lang_var = RowOf(last.id)["target_lang"]

\* The handlers that run translate_text.
TranslateOps == {"edit", "language", "transcribed"}

\* C8: when translation runs on an original text that is empty after
\* trimming, the translated text is empty afterwards and the translator was
\* not called.
C8_EmptyOriginalClears ==
    (last.op \in TranslateOps /\ Strip(orig_text) = <<>>)
        => (trans_text = <<>> /\ last.call = <<>>)

\* C8 witness: a recording thread's translation found the original text
\* blank (the user had replaced the recognized text).
C8_Witness ==
    /\ last.op = "transcribed"
    /\ orig_text = <<" ">>
    /\ trans_text = <<>>

\* C9: every translator call has the selected target language as destination
\* and its complement as source.
C9_CallFollowsSelection ==
    last.call # <<>> =>
        /\ last.call[2] = lang_var
        /\ last.call[1] = Complement(lang_var)

\* C10: when the translator call fails, the translated text and the original
\* text are what they were before the call, and an error is shown.
C10_FaultKeepsBuffers ==
    [][(last'.fault /\ last'.call # <<>>)
       => /\ trans_text' = trans_text
          /\ orig_text' = orig_text
          /\ last'.dialog = "error"]_vars

\* C10 witness: a translator call failed with a translation on display.
C10_Witness ==
    /\ last.fault
    /\ last.call # <<>>
    /\ last.dialog = "error"
    /\ trans_text # <<>>

\* C11: a second initialization in succession leaves the columns as the
\* first left them and changes or loses no row.
C11_SecondInitChangesNothing ==
    [][(last.op = "initialize" /\ last'.op = "initialize")
       => (columns' = columns /\ rows' = rows)]_vars

\* C11 witness: a table of an older version that holds rows was migrated by
\* one start of the program and initialized again by a second.
C11_Witness ==
    /\ last.op = "initialize"
    /\ ~last.raised
    /\ now >= 4
    /\ rows # <<>>
    /\ Range(columns) # Range(FreshColumns)
    /\ rows[1]["title"] = ColumnDefault("title", 0)

\* C12: initializing a table of the columns id, original_text and
\* translated_text succeeds, gives it the column set of a new table, leaves
\* id, original_text and translated_text of its rows as they were, and gives
\* each row title 'Untitled', source_lang 'en', target_lang 'ta' and the
\* current time as created_at.
C12_NarrowStoreMigrated ==
    [][(/\ Range(columns) = {"id", "original_text", "translated_text"}
        /\ last'.op = "initialize")
       => /\ ~last'.raised
          /\ Range(columns') = Range(FreshColumns)
          /\ Len(rows') = Len(rows)
          /\ \A i \in DOMAIN rows :
               /\ rows'[i]["id"] = rows[i]["id"]
               /\ rows'[i]["original_text"] = rows[i]["original_text"]
               /\ rows'[i]["translated_text"] = rows[i]["translated_text"]
               /\ rows'[i]["title"] = <<"U", "n", "t", "i", "t", "l", "e", "d">>
               /\ rows'[i]["source_lang"] = EN
               /\ rows'[i]["target_lang"] = TA
               /\ rows'[i]["created_at"] = now]_vars

\* C13: a save whose INSERT faults reports failure and leaves the rows as
\* they were; a save that succeeds adds exactly one row; neither raises.
C13_SaveFaultLeavesStore ==
    [][(last'.op = "save" /\ last'.store # "none")
       => /\ ~last'.raised
          /\ IF last'.fault
             THEN /\ last'.store = "failed"
                  /\ last'.dialog = "error"
                  /\ rows' = rows
             ELSE /\ last'.store = "ok"
                  /\ Len(rows') = Len(rows) + 1
                  /\ SubSeq(rows', 1, Len(rows)) = rows]_vars

\* C13 witness: a save failed on a store that holds a row.
C13_Witness ==
    /\ last.op = "save"
    /\ last.store = "failed"
    /\ last.fault
    /\ rows # <<>>

\* C14: no step removes a row or changes a value of a row, and every new
\* row has an id greater than the id of every row before it.
C14_AppendOnly ==
    [][/\ Len(rows') >= Len(rows)
       /\ \A i \in DOMAIN rows :
            \A c \in DOMAIN rows[i] :
                c \in DOMAIN rows'[i] /\ rows'[i][c] = rows[i][c]
       /\ \A j \in DOMAIN rows' \ DOMAIN rows :
            \A i \in DOMAIN rows : rows'[j]["id"] > rows[i]["id"]]_vars

\* C14 witness: the program was started again on a store to which it had
\* added a row.
C14_Witness ==
    /\ last.op = "initialize"
    /\ Len(rows) >= 2
    /\ rows[Len(rows)]["id"] > rows[1]["id"]

\* C15: a recording session that has ended, whatever ended it, has left the
\* controller Idle: when no thread is inside start_recording or about to
\* enter it, the controller is not listening, Start is enabled and Stop is
\* disabled.
C15_EndedSessionsIdle ==
    (\A t \in Threads : pc[t] \in {"idle", "done", "dead"})
        => /\ ~is_listening
           /\ start_btn = "normal"
           /\ stop_btn = "disabled"

C17_FailedCaptureWritesNothing ==
    [][/\ \A t \in Threads :
            (last'.thread = t /\ heard'[t] = <<>>)
              => /\ UNCHANGED <<title_entry, orig_text, trans_text>>
                 /\ UNCHANGED <<lang_var, current_language>>
                 /\ last'.call = <<>>
       /\ (last'.op = "capture" /\ last'.fault) => last'.dialog = "error"]_vars

\* C17 witness: a capture failed with an original text and its translation
\* on display.
C17_Witness ==
    /\ last.op = "capture"
    /\ last.fault
    /\ last.dialog = "error"
    /\ orig_text # <<>>
    /\ trans_text # <<>>

\* C18: current_language is the language lang_var shows as selected.
C18_LanguageInSync == current_language = lang_var

====
